---- MODULE Spec2Model ----
(***************************************************************************)
(* Model of pythonProject3/winnetka.py: AddressMapper (geocode_address,    *)
(* batch_geocode, add_polygon / calculate_centroid, create_map) and main.  *)
(*                                                                         *)
(* Numbers: coordinates are integers and every quotient is an exact        *)
(* rational <<numerator, denominator>> in lowest terms with a positive     *)
(* denominator; Python's float rounding is not modelled.                   *)
(***************************************************************************)
EXTENDS Integers, Sequences, FiniteSets, TLC

\* ---------------------------------------------------------------- bounds
\* most rows the filtered addresses.csv frame holds
MaxAddr == 3
\* most polygon groups polygons.csv holds in the pipeline specification
MaxPoly == 2
\* vertex coordinates of the ring specification: lat in 0..GridMax,
\* lon in -GridMax..GridMax
GridMax == 2

VARIABLES
    df,             \* main: rows of the filtered frame (row ids, in file order)
    full_addresses, \* main: list handed to batch_geocode
    contact_info,   \* main: list of contact records
    interrupted,    \* AddressMapper.interrupted
    pc,             \* position of the single thread of control
    i,              \* batch_geocode: 1-based position of the for loop
    result,         \* batch_geocode: value returned by geocode_address
    results,        \* batch_geocode: accumulated list
    geocoded_data,  \* main: list returned by batch_geocode (+ hard-coded point)
    polygons,       \* main: polygon dicts built from polygons.csv
    j,              \* create_map: 1-based position of the polygon loop
    k,              \* create_map: 1-based position of the marker loop
    m,              \* create_map: elements in the order they are added
    output,         \* what main printed last / saved
    requests,       \* history: HTTP requests issued, with the flag at issue time
    signalled,      \* history: the external signal has fired
    at_interrupt    \* history: <<results>> as they stood when the flag became true

vars == <<df, full_addresses, contact_info, interrupted, pc, i, result, results,
          geocoded_data, polygons, j, k, m, output, requests, signalled,
          at_interrupt>>

\* ------------------------------------------------------------ arithmetic
Abs(n) == IF n < 0 THEN -n ELSE n

RECURSIVE GCD(_, _)
GCD(a, b) == IF b = 0 THEN a ELSE GCD(b, a % b)

\* the rational n/d (d # 0) in lowest terms, denominator positive
Rat(n, d) ==
    LET g == GCD(Abs(n), Abs(d))
        s == IF d < 0 THEN -1 ELSE 1
    IN  <<(s * n) \div g, (s * d) \div g>>

RatMul(a, b) == Rat(a[1] * b[1], a[2] * b[2])
RatDiv(a, b) == Rat(a[1] * b[2], a[2] * b[1])
RatAbs(a) == <<Abs(a[1]), a[2]>>
RatLeq(a, b) == a[1] * b[2] <= b[1] * a[2]
IsZero(a) == a[1] = 0

\* --------------------------------------------------------------- main data
None == <<>>

\* row r of addresses.csv (after the city/state filter)
Row(r) == [First |-> r, Address |-> <<r * 100, "Elm St">>,
           city |-> "Winnetka", state |-> "IL"]

\* winnetka.py:224-227  f"{row['Address:']}, {row['city']}, {row['state']}"
FullAddress(row) == row.Address \o <<row.city, row.state>>

\* winnetka.py:230  df[[...]].to_dict('records')
ContactOf(row) == [First |-> row.First, Address |-> row.Address]

\* winnetka.py:233-239
hard_coded_contact == [First |-> 0, Address |-> <<345, "Locust Rd", "Winnetka", "IL">>]

\* winnetka.py:245-249 (coordinates truncated to whole degrees)
hard_coded_point == [address |-> hard_coded_contact.Address, lat |-> 42, lon |-> -87]

\* ------------------------------------------------------ geocoding service
\* text of a number as the service sends it
NumText(n) == [junk |-> FALSE, sign |-> IF n < 0 THEN "-" ELSE "", digits |-> Abs(n)]
JunkText == [junk |-> TRUE, sign |-> "", digits |-> 0]

\* Python float(text); raises ValueError on junk (see Parses)
Float(t) == IF t.sign = "-" THEN -(t.digits) ELSE t.digits
Parses(t) == ~t.junk

\* coordinates the service holds for an address
ServiceLat(address) == 42 + (address[1] \div 100)
ServiceLon(address) == -(87 + (address[1] \div 100))

Candidate(lat, lon) == [lat |-> lat, lon |-> lon]

\* what one GET can come back with: status 0 is a connection error raised
\* by requests.get; a 200 carries a list of candidates
Responses(address) ==
    { [status |-> 0,   reason |-> "Connection aborted", body |-> <<>>],
      [status |-> 401, reason |-> "Unauthorized", body |-> <<>>],
      [status |-> 429, reason |-> "Too Many Requests", body |-> <<>>],
      [status |-> 500, reason |-> "Internal Server Error", body |-> <<>>],
      [status |-> 200, reason |-> "OK", body |-> <<>>],
      [status |-> 200, reason |-> "OK",
       body |-> <<Candidate(JunkText, NumText(ServiceLon(address)))>>],
      [status |-> 200, reason |-> "OK",
       body |-> <<Candidate(NumText(ServiceLat(address)), NumText(ServiceLon(address))),
                  Candidate(NumText(0), NumText(0))>>] }

\* history entry of a request whose response has not arrived
Pending == [status |-> -1, reason |-> "", body |-> <<>>]

\* winnetka.py:41  response.raise_for_status()
RaisesForStatus(resp) == resp.status >= 400

\* winnetka.py:42-47 raise IndexError / ValueError
ParseFails(resp) ==
    \/ Len(resp.body) = 0
    \/ ~Parses(resp.body[1].lat)
    \/ ~Parses(resp.body[1].lon)

\* winnetka.py:43-47
GeocodeResult(full_address, resp) ==
    [address |-> full_address,
     lat |-> Float(resp.body[1].lat),
     lon |-> Float(resp.body[1].lon)]

\* ------------------------------------------------------------- polygons
\* winnetka.py:256-261
colors == <<"blue", "red", "green", "purple",
            "orange", "darkblue", "darkred", "darkgreen",
            "cadetblue", "darkpurple", "pink", "lightblue",
            "lightred", "lightgreen", "gray", "black">>

\* winnetka.py:276-278  close the ring when first and last vertex differ
CloseRing(coordinates) ==
    IF coordinates[1] # coordinates[Len(coordinates)]
    THEN Append(coordinates, coordinates[1])
    ELSE coordinates

\* winnetka.py:280-286  the dict appended for one group; n = len(polygons)
PolygonDict(group, has_name, n) ==
    [coordinates |-> CloseRing(group.vertices),
     color |-> colors[(n % Len(colors)) + 1],
     fill_color |-> colors[(n % Len(colors)) + 1],
     fill_opacity |-> <<1, 5>>,
     popup_text |-> IF has_name THEN <<"name", group.polygon_id>>
                    ELSE <<"Area", group.polygon_id>>]

\* winnetka.py:265-286  the list built from the groups of polygons.csv
RECURSIVE BuildPolygons(_, _, _)
BuildPolygons(groups, has_name, acc) ==
    IF groups = <<>> THEN acc
    ELSE BuildPolygons(Tail(groups), has_name,
                       Append(acc, PolygonDict(Head(groups), has_name, Len(acc))))

\* variant of Cross: the second product is added instead of subtracted
CrossSignSlip(coords, e) ==
    coords[e][1] * coords[e + 1][2] + coords[e + 1][1] * coords[e][2]

\* winnetka.py:96  cross of the edge from coords[e] to coords[e+1]
Cross(coords, e) == coords[e][1] * coords[e + 1][2] - coords[e + 1][1] * coords[e][2]

\* winnetka.py:93-99  the three sums after the first e edges
RECURSIVE SumArea(_, _)
SumArea(coords, e) ==
    IF e = 0 THEN 0 ELSE SumArea(coords, e - 1) + Cross(coords, e)

RECURSIVE SumCx(_, _)
SumCx(coords, e) ==
    IF e = 0 THEN 0
    ELSE SumCx(coords, e - 1) + (coords[e][1] + coords[e + 1][1]) * Cross(coords, e)

RECURSIVE SumCy(_, _)
SumCy(coords, e) ==
    IF e = 0 THEN 0
    ELSE SumCy(coords, e - 1) + (coords[e][2] + coords[e + 1][2]) * Cross(coords, e)

\* winnetka.py:100-103  the sign handling of the returned pair
CentroidSign(c) == RatAbs(c)

\* variant of calculate_centroid: a zero area yields (0, 0) instead of raising
calculate_centroid_silent(coords) ==
    LET n == Len(coords) - 1
        area == Rat(SumArea(coords, n), 2)
        six_area == RatMul(<<6, 1>>, area)
    IN  IF IsZero(six_area)
        THEN [raised |-> FALSE, lat |-> <<0, 1>>, lon |-> <<0, 1>>]
        ELSE [raised |-> FALSE,
              lat |-> CentroidSign(RatDiv(<<SumCx(coords, n), 1>>, six_area)),
              lon |-> CentroidSign(RatDiv(<<SumCy(coords, n), 1>>, six_area))]

\* winnetka.py:89-103  raised = ZeroDivisionError at line 101
calculate_centroid(coords) ==
    LET n == Len(coords) - 1
        area == Rat(SumArea(coords, n), 2)
        six_area == RatMul(<<6, 1>>, area)
    IN  IF IsZero(six_area)
        THEN [raised |-> TRUE, lat |-> <<0, 1>>, lon |-> <<0, 1>>]
        ELSE [raised |-> FALSE,
              lat |-> CentroidSign(RatDiv(<<SumCx(coords, n), 1>>, six_area)),
              lon |-> CentroidSign(RatDiv(<<SumCy(coords, n), 1>>, six_area))]

\* elements handed to folium, in the order they are added
PolygonElement(polygon) ==
    [kind |-> "Polygon", parent |-> "map", locations |-> polygon.coordinates,
     location |-> <<>>, color |-> polygon.color, popup |-> polygon.popup_text,
     info |-> <<>>]

LabelElement(polygon, c) ==
    [kind |-> "Label", parent |-> "map", locations |-> polygon.coordinates,
     location |-> <<c.lat, c.lon>>, color |-> polygon.color,
     popup |-> polygon.popup_text, info |-> <<>>]

ClusterElement ==
    [kind |-> "MarkerCluster", parent |-> "map", locations |-> <<>>,
     location |-> <<>>, color |-> "", popup |-> <<>>, info |-> <<>>]

MarkerElement(point, contact) ==
    [kind |-> "Marker", parent |-> "cluster", locations |-> <<>>,
     location |-> <<<<point.lat, 1>>, <<point.lon, 1>>>>, color |-> "",
     popup |-> <<contact.First, contact.Address>>, info |-> <<contact>>]

\* winnetka.py:74-125  what add_polygon adds to the map, and whether it raises
add_polygon(polygon) ==
    LET c == calculate_centroid(polygon.coordinates)
    IN  [raised |-> c.raised,
         added |-> IF c.raised \/ polygon.popup_text = None
                   THEN <<PolygonElement(polygon)>>
                   ELSE <<PolygonElement(polygon), LabelElement(polygon, c)>>]

\* contents of polygons.csv the pipeline is run on
SquareRing == <<<<0, 0>>, <<0, 2>>, <<2, 2>>, <<2, 0>>, <<0, 0>>>>
CollinearRing == <<<<0, 0>>, <<1, 1>>, <<2, 2>>>>
WinnetkaRing == <<<<42, -88>>, <<42, -87>>, <<43, -87>>>>
RingCatalogue == {SquareRing, CollinearRing}

SeqsUpTo(S, n) == UNION { [1..l -> S] : l \in 0..n }

PolygonFiles ==
    { [missing |-> FALSE, has_name |-> h,
       groups |-> [g \in 1..Len(rings) |-> [polygon_id |-> g, vertices |-> rings[g]]]] :
         h \in BOOLEAN, rings \in SeqsUpTo(RingCatalogue, MaxPoly) }
    \cup { [missing |-> TRUE, has_name |-> FALSE, groups |-> <<>>] }

\* ------------------------------------------------------------------- Init
\* after AddressMapper(API_KEY) at winnetka.py:206, before the CSV is read
Init ==
    /\ \E n \in 0..MaxAddr : df = [r \in 1..n |-> Row(r)]
    /\ full_addresses = <<>>
    /\ contact_info = <<>>
    /\ interrupted = FALSE
    /\ pc = "read_csv"
    /\ i = 0
    /\ result = None
    /\ results = <<>>
    /\ geocoded_data = <<>>
    /\ polygons = <<>>
    /\ j = 0
    /\ k = 0
    /\ m = <<>>
    /\ output = "none"
    /\ requests = <<>>
    /\ signalled = FALSE
    /\ at_interrupt = <<>>

\* ------------------------------------------------------ external signal
\* winnetka.py:18-20, delivered between any two steps of the main thread
handle_interrupt ==
    /\ pc # "done"
    /\ interrupted' = TRUE
    /\ signalled' = TRUE
    /\ at_interrupt' = IF interrupted THEN at_interrupt ELSE <<results>>
    /\ UNCHANGED <<df, full_addresses, contact_info, pc, i, result, results,
                   geocoded_data, polygons, j, k, m, output, requests>>

\* ------------------------------------------------------------------ main
\* winnetka.py:209-241
ReadCsv ==
    /\ pc = "read_csv"
    /\ full_addresses' = [r \in 1..Len(df) |-> FullAddress(df[r])]
    /\ contact_info' = [r \in 1..Len(df) |-> ContactOf(df[r])]
    /\ pc' = "batch_geocode"
    /\ UNCHANGED <<df, interrupted, i, result, results, geocoded_data, polygons,
                   j, k, m, output, requests, signalled, at_interrupt>>

\* winnetka.py:58-62
BatchStart ==
    /\ pc = "batch_geocode"
    /\ results' = <<>>
    /\ i' = 1
    /\ pc' = "loop"
    /\ UNCHANGED <<df, full_addresses, contact_info, interrupted, result,
                   geocoded_data, polygons, j, k, m, output, requests, signalled, at_interrupt>>

\* variant of LoopHead: the loop does not look at the flag
LoopHeadNoBreak ==
    /\ pc = "loop"
    /\ pc' = IF i > Len(full_addresses) THEN "return" ELSE "geocode_address"
    /\ UNCHANGED <<df, full_addresses, contact_info, interrupted, i, result, results,
                   geocoded_data, polygons, j, k, m, output, requests, signalled,
                   at_interrupt>>

\* winnetka.py:63-65
LoopHead ==
    /\ pc = "loop"
    /\ pc' = IF i > Len(full_addresses) \/ interrupted THEN "return" ELSE "geocode_address"
    /\ UNCHANGED <<df, full_addresses, contact_info, interrupted, i, result, results,
                   geocoded_data, polygons, j, k, m, output, requests, signalled, at_interrupt>>

\* variant of GeocodeEntry: geocode_address does not look at the flag
GeocodeEntryNoCheck ==
    /\ pc = "geocode_address"
    /\ pc' = "sleep"
    /\ UNCHANGED <<df, full_addresses, contact_info, interrupted, i, result, results,
                   geocoded_data, polygons, j, k, m, output, requests, signalled,
                   at_interrupt>>

\* winnetka.py:22-31
GeocodeEntry ==
    /\ pc = "geocode_address"
    /\ IF interrupted
       THEN result' = None /\ pc' = "got_result"
       ELSE result' = result /\ pc' = "sleep"
    /\ UNCHANGED <<df, full_addresses, contact_info, interrupted, i, results,
                   geocoded_data, polygons, j, k, m, output, requests, signalled, at_interrupt>>

\* winnetka.py:33  time.sleep(1)
Sleep ==
    /\ pc = "sleep"
    /\ pc' = "get"
    /\ UNCHANGED <<df, full_addresses, contact_info, interrupted, i, result, results,
                   geocoded_data, polygons, j, k, m, output, requests, signalled, at_interrupt>>

\* winnetka.py:34  requests.get(url, params) goes out
HttpGet ==
    /\ pc = "get"
    /\ requests' = Append(requests, [pos |-> i, q |-> full_addresses[i],
                                     flag |-> interrupted, resp |-> Pending])
    /\ pc' = "in_flight"
    /\ UNCHANGED <<df, full_addresses, contact_info, interrupted, i, result, results,
                   geocoded_data, polygons, j, k, m, output, signalled, at_interrupt>>

\* variants of FlagAfter: a 401 that does not stop the batch; a 429 that does
FlagAfterIgnores401(resp, flag) == flag
FlagAfterRateLimitFatal(resp, flag) ==
    IF resp.status = 401 \/ resp.status = 429 THEN TRUE ELSE flag

\* winnetka.py:36-38  the flag after a response has been classified
FlagAfter(resp, flag) == IF resp.status = 401 THEN TRUE ELSE flag

\* the value geocode_address returns for a response, winnetka.py:36-56
Returned(full_address, resp) ==
    IF resp.status = 0 THEN None
    ELSE IF resp.status = 401 THEN None
    ELSE IF RaisesForStatus(resp) THEN None
    ELSE IF ParseFails(resp) THEN None
    ELSE <<GeocodeResult(full_address, resp)>>

\* winnetka.py:34-56  the response (or the exception) arrives and is handled
HttpResponse ==
    /\ pc = "in_flight"
    /\ \E resp \in Responses(full_addresses[i]) :
        /\ result' = Returned(full_addresses[i], resp)
        /\ interrupted' = FlagAfter(resp, interrupted)
        /\ at_interrupt' = IF ~interrupted /\ FlagAfter(resp, interrupted)
                           THEN <<results>> ELSE at_interrupt
        /\ pc' = IF resp.status # 401 /\ resp.status # 0 /\ RaisesForStatus(resp)
                    /\ resp.reason = "Too Many Requests"
                 THEN "backoff" ELSE "got_result"
        /\ requests' = [requests EXCEPT ![Len(requests)].resp = resp]
    /\ UNCHANGED <<df, full_addresses, contact_info, i, results,
                   geocoded_data, polygons, j, k, m, output, signalled>>

\* winnetka.py:50-53  time.sleep(5)
Backoff ==
    /\ pc = "backoff"
    /\ pc' = "got_result"
    /\ UNCHANGED <<df, full_addresses, contact_info, interrupted, i, result, results,
                   geocoded_data, polygons, j, k, m, output, requests, signalled, at_interrupt>>

\* variant of Appended: a failed lookup leaves a placeholder entry
AppendedWithPlaceholder(rs, r) ==
    IF r # None THEN Append(rs, r[1])
    ELSE Append(rs, [address |-> <<>>, lat |-> 0, lon |-> 0])

\* the list batch_geocode holds after "if result: results.append(result)"
Appended(rs, r) == IF r # None THEN Append(rs, r[1]) ELSE rs

\* winnetka.py:67-70
GotResult ==
    /\ pc = "got_result"
    /\ results' = Appended(results, result)
    /\ i' = i + 1
    /\ pc' = "loop"
    /\ UNCHANGED <<df, full_addresses, contact_info, interrupted, result,
                   geocoded_data, polygons, j, k, m, output, requests, signalled, at_interrupt>>

\* winnetka.py:72, 242
BatchReturn ==
    /\ pc = "return"
    /\ geocoded_data' = results
    /\ pc' = "append_hard_coded"
    /\ UNCHANGED <<df, full_addresses, contact_info, interrupted, i, result, results,
                   polygons, j, k, m, output, requests, signalled, at_interrupt>>

\* winnetka.py:244-250
AppendHardCoded ==
    /\ pc = "append_hard_coded"
    /\ geocoded_data' = Append(geocoded_data, hard_coded_point)
    /\ contact_info' = Append(contact_info, hard_coded_contact)
    /\ pc' = "load_polygons"
    /\ UNCHANGED <<df, full_addresses, interrupted, i, result, results,
                   polygons, j, k, m, output, requests, signalled, at_interrupt>>

\* winnetka.py:252-287, 299-301  (geocoded_data is never empty here)
LoadPolygons ==
    /\ pc = "load_polygons"
    /\ \E file \in PolygonFiles :
         polygons' = IF file.missing THEN <<>>
                     ELSE BuildPolygons(file.groups, file.has_name, <<>>)
    /\ pc' = "create_map"
    /\ UNCHANGED <<df, full_addresses, contact_info, interrupted, i, result, results,
                   geocoded_data, j, k, m, output, requests, signalled, at_interrupt>>

\* variant of CreateMapStart: the cluster and its markers go on the map first
CreateMapStartMarkersFirst ==
    /\ pc = "create_map"
    /\ geocoded_data # <<>>
    /\ m' = <<ClusterElement>> \o
            [x \in 1..Len(geocoded_data) |-> MarkerElement(geocoded_data[x], contact_info[x])]
    /\ j' = 1
    /\ pc' = "polygons"
    /\ UNCHANGED <<df, full_addresses, contact_info, interrupted, i, result, results,
                   geocoded_data, polygons, k, output, requests, signalled, at_interrupt>>

\* winnetka.py:136-148; the ValueError is caught at winnetka.py:311
CreateMapStart ==
    /\ pc = "create_map"
    /\ IF geocoded_data = <<>>
       THEN /\ output' = "An error occurred: No geocoded data provided"
            /\ pc' = "done"
            /\ UNCHANGED <<m, j>>
       ELSE /\ m' = <<>>
            /\ j' = 1
            /\ pc' = "polygons"
            /\ UNCHANGED output
    /\ UNCHANGED <<df, full_addresses, contact_info, interrupted, i, result, results,
                   geocoded_data, polygons, k, requests, signalled, at_interrupt>>

\* winnetka.py:149-157 with 74-125; the ZeroDivisionError is caught at 311
AddPolygon ==
    /\ pc = "polygons"
    /\ j <= Len(polygons)
    /\ LET r == add_polygon(polygons[j])
       IN  /\ m' = m \o r.added
           /\ IF r.raised
              THEN /\ output' = "An error occurred: float division by zero"
                   /\ pc' = "done"
                   /\ j' = j
              ELSE /\ j' = j + 1
                   /\ UNCHANGED <<output, pc>>
    /\ UNCHANGED <<df, full_addresses, contact_info, interrupted, i, result, results,
                   geocoded_data, polygons, k, requests, signalled, at_interrupt>>

\* winnetka.py:159-160
AddCluster ==
    /\ pc = "polygons"
    /\ j > Len(polygons)
    /\ m' = Append(m, ClusterElement)
    /\ k' = 1
    /\ pc' = "markers"
    /\ UNCHANGED <<df, full_addresses, contact_info, interrupted, i, result, results,
                   geocoded_data, polygons, j, output, requests, signalled, at_interrupt>>

\* winnetka.py:162-184  one iteration of the marker loop
AddMarker ==
    /\ pc = "markers"
    /\ k <= Len(geocoded_data)
    /\ m' = Append(m, MarkerElement(geocoded_data[k], contact_info[k]))
    /\ k' = k + 1
    /\ UNCHANGED <<df, full_addresses, contact_info, interrupted, pc, i, result, results,
                   geocoded_data, polygons, j, output, requests, signalled, at_interrupt>>

\* winnetka.py:186, 295-298
SaveMap ==
    /\ pc = "markers"
    /\ k > Len(geocoded_data)
    /\ output' = "Map saved"
    /\ pc' = "done"
    /\ UNCHANGED <<df, full_addresses, contact_info, interrupted, i, result, results,
                   geocoded_data, polygons, j, k, m, requests, signalled, at_interrupt>>

Next ==
    \/ handle_interrupt
    \/ ReadCsv
    \/ BatchStart
    \/ LoopHead
    \/ GeocodeEntry
    \/ Sleep
    \/ HttpGet
    \/ HttpResponse
    \/ Backoff
    \/ GotResult
    \/ BatchReturn
    \/ AppendHardCoded
    \/ LoadPolygons
    \/ CreateMapStart
    \/ AddPolygon
    \/ AddCluster
    \/ AddMarker
    \/ SaveMap

Spec == Init /\ [][Next]_vars

\* --------------------------------------------------- ring specification
\* main at winnetka.py:288 after an empty addresses.csv and no signal, with a
\* polygons.csv of two groups: a ring over the grid and the same ring reversed
\* (three vertices anywhere on the grid, or four vertices on its half of
\* non-positive longitude, or one of the named rings)
GridPoints == { <<lat, lon>> : lat \in 0..GridMax, lon \in (-GridMax)..GridMax }
WestPoints == { p \in GridPoints : p[2] <= 0 }
GridRings ==
    [1..3 -> GridPoints] \cup [1..4 -> WestPoints]
        \cup {SquareRing, CollinearRing, WinnetkaRing}

Reverse(s) == [x \in 1..Len(s) |-> s[Len(s) + 1 - x]]

RingFile(vertices) ==
    <<[polygon_id |-> 1, vertices |-> vertices],
      [polygon_id |-> 2, vertices |-> Reverse(CloseRing(vertices))]>>

InitCentroid ==
    /\ df = <<>>
    /\ full_addresses = <<>>
    /\ contact_info = <<hard_coded_contact>>
    /\ interrupted = FALSE
    /\ pc = "create_map"
    /\ i = 1
    /\ result = None
    /\ results = <<>>
    /\ geocoded_data = <<hard_coded_point>>
    /\ \E vertices \in GridRings :
         polygons = BuildPolygons(RingFile(vertices), FALSE, <<>>)
    /\ j = 0
    /\ k = 0
    /\ m = <<>>
    /\ output = "none"
    /\ requests = <<>>
    /\ signalled = FALSE
    /\ at_interrupt = <<>>

NextCentroid ==
    \/ CreateMapStart
    \/ AddPolygon
    \/ AddCluster
    \/ AddMarker
    \/ SaveMap

SpecCentroid == InitCentroid /\ [][NextCentroid]_vars

\* ================================================================ claims
IsPrefix(a, b) == Len(a) <= Len(b) /\ SubSeq(b, 1, Len(a)) = a

\* batch_geocode has just returned: geocoded_data is the list it returned
BatchReturned == pc = "append_hard_coded"

\* the service answered request r with a usable first candidate
LookupOk(r) ==
    /\ requests[r].resp.status = 200
    /\ Len(requests[r].resp.body) >= 1
    /\ ~requests[r].resp.body[1].lat.junk
    /\ ~requests[r].resp.body[1].lon.junk

\* the result the service's answer to request r stands for
Expected(r) ==
    [address |-> requests[r].q,
     lat |-> ServiceLat(requests[r].q),
     lon |-> ServiceLon(requests[r].q)]

\* expected results of the successful lookups among requests 1..n, in order
RECURSIVE SuccessesUpTo(_)
SuccessesUpTo(n) ==
    IF n = 0 THEN <<>>
    ELSE SuccessesUpTo(n - 1) \o (IF LookupOk(n) THEN <<Expected(n)>> ELSE <<>>)

No401 == \A r \in DOMAIN requests : requests[r].resp.status # 401
FlaggedRequests == { r \in DOMAIN requests : requests[r].flag }

\* C1 (as stated): no HTTP request is issued after the interrupted flag has
\* become true, wherever the signal fires.
C1_NoRequestAfterFlag == \A r \in DOMAIN requests : ~requests[r].flag

\* C1 (amended): a flag check that sees the flag true (loop head, top of
\* geocode_address) never leads to a request; a request issued with the flag
\* already true is one whose flag check had passed before a signal arrived,
\* with no earlier Unauthorized answer, and it is the last request of the batch.
C1_NoRequestAfterObservedFlag ==
    /\ [](\A r \in DOMAIN requests :
            requests[r].flag =>
                /\ r = Len(requests)
                /\ signalled
                /\ \A q \in 1..(r - 1) : requests[q].resp.status # 401)
    /\ [][/\ (pc = "geocode_address" /\ interrupted) => pc' # "sleep"
          /\ (pc = "loop" /\ interrupted) => pc' # "geocode_address"]_vars

C1_Witness ==
    /\ BatchReturned
    /\ \E r \in DOMAIN requests :
          requests[r].flag /\ r = Len(requests) /\ requests[r].pos < Len(full_addresses)

\* C2: with no signal, an Unauthorized answer to the k-th request makes it the
\* last request (exactly k requests, one per address 1..k), and batch_geocode
\* returns exactly the successful results among the first k-1.
C2_UnauthorizedStopsBatch ==
    \A kk \in DOMAIN requests :
        (requests[kk].resp.status = 401 /\ ~signalled) =>
            /\ Len(requests) = kk
            /\ \A r \in 1..kk : requests[r].pos = r
            /\ BatchReturned => geocoded_data = SuccessesUpTo(kk - 1)

C2_Witness ==
    /\ BatchReturned
    /\ ~signalled
    /\ Len(full_addresses) = 3
    /\ Len(requests) = 2
    /\ LookupOk(1)
    /\ requests[2].resp.status = 401
    /\ Len(geocoded_data) = 1

\* C3: the list batch_geocode returns is exactly the results of the attempted
\* addresses whose lookup succeeded, in input order, without placeholders; when
\* every address was looked up successfully it has the input's length and order
\* and each entry carries its address and the service's coordinates.
C3_ReturnsSuccessfulSubsequence ==
    BatchReturned =>
        /\ geocoded_data = SuccessesUpTo(Len(requests))
        /\ \A r1, r2 \in DOMAIN requests : r1 < r2 => requests[r1].pos < requests[r2].pos
        /\ \A r \in DOMAIN requests : requests[r].q = full_addresses[requests[r].pos]
        /\ \A x \in DOMAIN geocoded_data :
              \E r \in DOMAIN requests : LookupOk(r) /\ geocoded_data[x] = Expected(r)
        /\ (Len(requests) = Len(full_addresses) /\ \A r \in DOMAIN requests : LookupOk(r)) =>
              /\ Len(geocoded_data) = Len(full_addresses)
              /\ \A x \in DOMAIN geocoded_data :
                    geocoded_data[x] = [address |-> full_addresses[x],
                                        lat |-> ServiceLat(full_addresses[x]),
                                        lon |-> ServiceLon(full_addresses[x])]

C3_Witness ==
    /\ BatchReturned
    /\ Len(full_addresses) = 3
    /\ Len(requests) = 3
    /\ LookupOk(1) /\ ~LookupOk(2) /\ LookupOk(3)
    /\ Len(geocoded_data) = 2

\* C4: with no Unauthorized answer and no signal, a failed lookup touches only
\* its own address: the flag stays false, every address is requested exactly
\* once, and the failed address is absent from the returned list.
C4_FailureIsLocal ==
    (~signalled /\ No401) =>
        /\ ~interrupted
        /\ \A r \in DOMAIN requests : requests[r].pos = r
        /\ BatchReturned =>
              /\ Len(requests) = Len(full_addresses)
              /\ \A r \in DOMAIN requests :
                    ~LookupOk(r) =>
                        \A x \in DOMAIN geocoded_data : geocoded_data[x].address # requests[r].q

C4_Witness ==
    /\ BatchReturned
    /\ ~signalled
    /\ ~interrupted
    /\ Len(requests) = 3
    /\ requests[1].resp.status = 429
    /\ LookupOk(2)
    /\ requests[3].resp.status = 0
    /\ Len(geocoded_data) = 1

\* C5: once the flag is true at most one more HTTP request is started, the loop
\* leaves only through its return, and the returned list starts with every
\* result accumulated when the flag was set.
C5_BoundedShutdown ==
    /\ [](/\ Cardinality(FlaggedRequests) <= 1
          /\ (BatchReturned /\ at_interrupt # <<>>) => IsPrefix(at_interrupt[1], geocoded_data))
    /\ [][/\ (pc = "loop" /\ interrupted /\ pc' # pc) => pc' = "return"
          /\ (pc = "return" /\ pc' # pc) =>
                (pc' = "append_hard_coded" /\ geocoded_data' = results)]_vars

C5_Witness ==
    /\ BatchReturned
    /\ at_interrupt # <<>>
    /\ Len(at_interrupt[1]) = 1
    /\ Len(geocoded_data) = 2
    /\ Len(full_addresses) = 3
    /\ Cardinality(FlaggedRequests) = 1
\* ------------------------------------------------ geometry of the claims
\* twice the signed (shoelace) area of a closed ring, and the centroid sums
RECURSIVE TwiceArea(_)
TwiceArea(ring) ==
    IF Len(ring) < 2 THEN 0
    ELSE (ring[1][1] * ring[2][2] - ring[2][1] * ring[1][2]) + TwiceArea(Tail(ring))

RECURSIVE MomentLat(_)
MomentLat(ring) ==
    IF Len(ring) < 2 THEN 0
    ELSE (ring[1][1] + ring[2][1]) * (ring[1][1] * ring[2][2] - ring[2][1] * ring[1][2])
         + MomentLat(Tail(ring))

RECURSIVE MomentLon(_)
MomentLon(ring) ==
    IF Len(ring) < 2 THEN 0
    ELSE (ring[1][2] + ring[2][2]) * (ring[1][1] * ring[2][2] - ring[2][1] * ring[1][2])
         + MomentLon(Tail(ring))

\* the signed-area weighted centroid (cx, cy) of a ring of non-zero area
SignedCentroid(ring) ==
    <<Rat(MomentLat(ring), 3 * TwiceArea(ring)), Rat(MomentLon(ring), 3 * TwiceArea(ring))>>

Orient(p, q, r) == (q[1] - p[1]) * (r[2] - p[2]) - (q[2] - p[2]) * (r[1] - p[1])
Between(a, b, c) == (a <= c /\ c <= b) \/ (b <= c /\ c <= a)
OnSegment(p, q, r) ==
    Orient(p, q, r) = 0 /\ Between(p[1], q[1], r[1]) /\ Between(p[2], q[2], r[2])
Intersect(p1, q1, p2, q2) ==
    \/ /\ Orient(p1, q1, p2) * Orient(p1, q1, q2) < 0
       /\ Orient(p2, q2, p1) * Orient(p2, q2, q1) < 0
    \/ OnSegment(p1, q1, p2) \/ OnSegment(p1, q1, q2)
    \/ OnSegment(p2, q2, p1) \/ OnSegment(p2, q2, q1)

\* a closed ring is simple: its vertices are distinct, edges that are not
\* neighbours do not meet, and neighbouring edges meet only in their vertex
IsSimple(ring) ==
    LET n == Len(ring) - 1
        nxt(a) == IF a = n THEN 1 ELSE a + 1
    IN  /\ n >= 3
        /\ ring[1] = ring[n + 1]
        /\ \A a, b \in 1..n : a # b => ring[a] # ring[b]
        /\ \A a, b \in 1..n :
              (a < b /\ nxt(a) # b /\ nxt(b) # a) =>
                  ~Intersect(ring[a], ring[a + 1], ring[b], ring[b + 1])
        /\ \A a \in 1..n :
              ~OnSegment(ring[a], ring[a + 1], ring[nxt(nxt(a))])
              /\ ~OnSegment(ring[nxt(a)], ring[nxt(nxt(a))], ring[a])

\* positive latitude, negative longitude
InDomain(ring) == \A v \in DOMAIN ring : ring[v][1] > 0 /\ ring[v][2] < 0

InBox(loc, ring) ==
    /\ \E v \in DOMAIN ring : RatLeq(<<ring[v][1], 1>>, loc[1])
    /\ \E v \in DOMAIN ring : RatLeq(loc[1], <<ring[v][1], 1>>)
    /\ \E v \in DOMAIN ring : RatLeq(<<ring[v][2], 1>>, loc[2])
    /\ \E v \in DOMAIN ring : RatLeq(loc[2], <<ring[v][2], 1>>)

IsLabel(e) == e.kind = "Label"
IsMarker(e) == e.kind = "Marker"
Labels == SelectSeq(m, IsLabel)
Markers == SelectSeq(m, IsMarker)

\* C6: for a ring of non-zero area the label of the ring and the label of the
\* same ring reversed are placed at the same point, and composition completes;
\* for the square ring that point is (1, 1) in both windings.
C6_WindingIndependent ==
    LET ring == polygons[1].coordinates
    IN  TwiceArea(ring) # 0 =>
            /\ pc = "done" => output = "Map saved"
            /\ pc \in {"markers", "done"} =>
                  /\ Len(Labels) = 2
                  /\ Labels[1].locations = ring
                  /\ Labels[2].locations = Reverse(ring)
                  /\ Labels[1].location = Labels[2].location
            /\ \A x \in DOMAIN Labels :
                  Labels[x].locations \in {SquareRing, Reverse(SquareRing)} =>
                      Labels[x].location = << <<1, 1>>, <<1, 1>> >>

C6_Witness ==
    /\ pc = "done"
    /\ polygons[1].coordinates = SquareRing
    /\ polygons[2].coordinates = Reverse(SquareRing)
    /\ polygons[2].coordinates # SquareRing
    /\ Len(Labels) = 2
    /\ Labels[2].location = << <<1, 1>>, <<1, 1>> >>

\* C7 (as stated): for a simple ring of non-zero area with positive latitudes
\* and negative longitudes the label sits at the signed-area weighted centroid
\* (cx, cy), hence inside the ring's latitude and longitude ranges.
C7_LabelAtSignedCentroid ==
    \A x \in DOMAIN Labels :
        LET ring == Labels[x].locations
        IN  (InDomain(ring) /\ TwiceArea(ring) # 0 /\ IsSimple(ring)) =>
                /\ Labels[x].location = SignedCentroid(ring)
                /\ InBox(Labels[x].location, ring)

\* C8: for a ring of zero area the centroid computation raises; no label is
\* ever placed, composition stops at that polygon with the error reported by
\* main, and the geocoded results, contacts and polygons stay as they were.
C8_DegenerateRingAborts ==
    /\ [](TwiceArea(polygons[1].coordinates) = 0 =>
            /\ Labels = <<>>
            /\ pc # "markers"
            /\ pc = "done" =>
                  /\ output = "An error occurred: float division by zero"
                  /\ j = 1
                  /\ m = <<PolygonElement(polygons[1])>>)
    /\ [][/\ geocoded_data' = geocoded_data
          /\ contact_info' = contact_info
          /\ polygons' = polygons]_vars

C8_Witness ==
    /\ pc = "done"
    /\ polygons[1].coordinates = CloseRing(CollinearRing)
    /\ TwiceArea(polygons[1].coordinates) = 0
    /\ output = "An error occurred: float division by zero"
    /\ geocoded_data = <<hard_coded_point>>

\* C9 (as stated): no marker of any kind is added before a polygon.
C9_PolygonsBeforeAnyMarker ==
    \A a, b \in DOMAIN m :
        (a < b /\ m[a].kind \in {"Label", "Marker"}) => m[b].kind # "Polygon"

\* C9 (amended): every polygon and every polygon label is added before the
\* marker cluster and the contact markers; a label marker comes directly after
\* its own polygon, so it can precede a later polygon.
C9_PolygonsBeforeClusteredMarkers ==
    /\ \A a, b \in DOMAIN m :
          (a < b /\ m[a].kind \in {"MarkerCluster", "Marker"}) =>
              m[b].kind \notin {"Polygon", "Label"}
    /\ \A b \in DOMAIN m :
          m[b].kind = "Label" =>
              /\ b > 1
              /\ m[b - 1].kind = "Polygon"
              /\ m[b - 1].locations = m[b].locations

C9_Witness ==
    /\ pc = "done"
    /\ output = "Map saved"
    /\ Len(polygons) = 2
    /\ Len(Labels) = 2
    /\ Len(Markers) >= 2
    /\ m[2].kind = "Label"
    /\ m[3].kind = "Polygon"

\* the contact belongs to the input row (or hard-coded entry) of the point
PairedRight(point, info) ==
    \/ point = hard_coded_point /\ info = hard_coded_contact
    \/ \E r \in DOMAIN df :
          point.address = FullAddress(df[r]) /\ info = ContactOf(df[r])

\* C10: each marker is built from geocoded point x and carries the contact of
\* the input row that point came from; the hard-coded point carries the
\* hard-coded contact.
C10_MarkersPairedWithOwnRow ==
    \A x \in DOMAIN Markers :
        /\ Markers[x].location = << <<geocoded_data[x].lat, 1>>, <<geocoded_data[x].lon, 1>> >>
        /\ PairedRight(geocoded_data[x], Markers[x].info[1])
====
